---------------------------- MODULE Spec2Model ----------------------------
(***************************************************************************)
(* The data model of the labor marketplace (shared_schema.ts): the three   *)
(* tables users, jobs and applications, their relations, and the three     *)
(* insert schemas that validate a client's record before it is inserted.   *)
(*                                                                         *)
(* A JavaScript value is a record [type, val] whose type tag is compared   *)
(* first; an untyped input object is a function from the keys it holds to  *)
(* such values (a key it does not hold reads as undefined).                *)
(***************************************************************************)
EXTENDS Integers, Sequences, FiniteSets, TLC

\* The field names of the model's records, each with the record it is first
\* a field of, in the order in which every record of the model lists its
\* fields (the order in which TLC then holds them).
FieldNames ==
    [type |-> "value", key |-> "edit", dataType |-> "column",
     isArray |-> "column", notNull |-> "column", id |-> "users",
     username |-> "users", password |-> "users", role |-> "users",
     fullName |-> "users", email |-> "users", phone |-> "users",
     companyName |-> "users", companyDescription |-> "users",
     companyLogo |-> "users", bio |-> "users", skills |-> "users",
     hourlyRate |-> "users", yearsExperience |-> "users",
     verified |-> "users", title |-> "jobs", description |-> "jobs",
     location |-> "jobs", requirements |-> "jobs", startDate |-> "jobs",
     endDate |-> "jobs", shiftStartTime |-> "jobs", shiftEndTime |-> "jobs",
     shiftHours |-> "jobs", rate |-> "jobs", employerId |-> "jobs",
     jobId |-> "applications", workerId |-> "applications",
     status |-> "jobs", note |-> "applications",
     createdAt |-> "applications", target |-> "relation",
     field |-> "relation", ref |-> "relation", job |-> "relation",
     worker |-> "relation", index |-> "issue", code |-> "issue",
     received |-> "issue", value |-> "parse result",
     success |-> "parse result", data |-> "parse result",
     issues |-> "parse result", op |-> "operation", kind |-> "zod type",
     val |-> "value", coerce |-> "zod type", nullable |-> "zod type",
     optional |-> "zod type", hasDefault |-> "zod type", dflt |-> "column",
     isUnique |-> "column", primary |-> "column", references |-> "column",
     input |-> "operation", parsed |-> "operation", values |-> "operation",
     outcome |-> "operation", columns |-> "operation", row |-> "operation",
     at |-> "operation", employer |-> "relation"]

VARIABLES
    db,     \* the rows of each table: [users, jobs, applications -> set of rows]
    seq,    \* the last value each table's serial id sequence handed out
    now,    \* the store's clock, in milliseconds since the start of ClockDay
    last    \* what the latest operation was given and what it answered

vars == <<db, seq, now, last>>

---------------------------------------------------------------------------
(* JavaScript values *)

Undefined == [type |-> "undefined", val |-> "undefined"]
Null == [type |-> "null", val |-> "null"]
Str(s) == [type |-> "string", val |-> s]
Num(n) == [type |-> "number", val |-> n]
Bool(b) == [type |-> "boolean", val |-> b]
Arr(a) == [type |-> "array", val |-> a]
\* A Date is <<days since the epoch, milliseconds into that day>>.
Date(d, ms) == [type |-> "date", val |-> <<d, ms>>]
InvalidDate == [type |-> "date", val |-> <<>>]
\* A stored timestamp column value (the driver's representation of a Date).
Timestamp(d, ms) == [type |-> "timestamp", val |-> <<d, ms>>]

EmptyObject == [k \in {} |-> Undefined]

Get(obj, k) == IF k \in DOMAIN obj THEN obj[k] ELSE Undefined

\* The keys of both objects, b's values winning ({...a, ...b}).
Merge(a, b) ==
    [k \in DOMAIN a \cup DOMAIN b |-> IF k \in DOMAIN b THEN b[k] ELSE a[k]]

---------------------------------------------------------------------------
(* Column builders of drizzle-orm/pg-core *)

NoDefault == [kind |-> "none", val |-> Null]

Column(dataType) ==
    [dataType |-> dataType, isArray |-> FALSE, notNull |-> FALSE,
     dflt |-> NoDefault, isUnique |-> FALSE, primary |-> FALSE,
     references |-> ""]

text == Column("string")
integer == Column("number")
boolean == Column("boolean")
timestamp == Column("date")
\* serial: an integer column, not null, defaulting to the sequence's next value
serial == [Column("number") EXCEPT !.notNull = TRUE,
                                   !.dflt = [kind |-> "serial", val |-> Null]]

notNull(c) == [c EXCEPT !.notNull = TRUE]
unique(c) == [c EXCEPT !.isUnique = TRUE]
primaryKey(c) == [c EXCEPT !.primary = TRUE, !.notNull = TRUE]
array(c) == [c EXCEPT !.isArray = TRUE]
default(c, v) == [c EXCEPT !.dflt = [kind |-> "value", val |-> v]]
defaultNow(c) == [c EXCEPT !.dflt = [kind |-> "now", val |-> Null]]
references(c, table) == [c EXCEPT !.references = table]

---------------------------------------------------------------------------
(* The tables *)

\* users, had username not been declared unique.
users_usernameNotUnique ==
    [id |-> primaryKey(serial),
     username |-> notNull(text),
     password |-> notNull(text),
     role |-> notNull(text),
     fullName |-> notNull(text),
     email |-> notNull(text),
     phone |-> text,
     companyName |-> text,
     companyDescription |-> text,
     companyLogo |-> text,
     bio |-> text,
     skills |-> array(text),
     hourlyRate |-> integer,
     yearsExperience |-> integer,
     verified |-> default(boolean, Bool(FALSE))]

users ==
    [id |-> primaryKey(serial),
     username |-> unique(notNull(text)),
     password |-> notNull(text),
     role |-> notNull(text),    \* worker or employer
     fullName |-> notNull(text),
     email |-> notNull(text),
     phone |-> text,
     companyName |-> text,
     companyDescription |-> text,
     companyLogo |-> text,
     bio |-> text,
     skills |-> array(text),
     hourlyRate |-> integer,
     yearsExperience |-> integer,
     verified |-> default(boolean, Bool(FALSE))]

jobs ==
    [id |-> primaryKey(serial),
     title |-> notNull(text),
     description |-> notNull(text),
     location |-> notNull(text),
     requirements |-> array(text),
     startDate |-> notNull(timestamp),
     endDate |-> notNull(timestamp),
     shiftStartTime |-> notNull(text),
     shiftEndTime |-> notNull(text),
     shiftHours |-> notNull(integer),
     rate |-> notNull(integer),
     employerId |-> references(notNull(integer), "users"),
     status |-> default(notNull(text), Str("open"))]

\* applications, had jobId not been declared a reference to jobs.
applications_jobIdNoReference ==
    [id |-> primaryKey(serial),
     jobId |-> notNull(integer),
     workerId |-> references(notNull(integer), "users"),
     status |-> default(notNull(text), Str("pending")),
     note |-> text,
     createdAt |-> defaultNow(notNull(timestamp))]

\* applications, had createdAt defaulted to a Date built when the schema was
\* loaded (.default(new Date())) instead of the store's now().
applications_createdAtAtLoad ==
    [id |-> primaryKey(serial),
     jobId |-> references(notNull(integer), "jobs"),
     workerId |-> references(notNull(integer), "users"),
     status |-> default(notNull(text), Str("pending")),
     note |-> text,
     createdAt |-> default(notNull(timestamp), Timestamp(19800, 0))]

\* applications, had a worker been allowed one application only.
applications_workerIdUnique ==
    [id |-> primaryKey(serial),
     jobId |-> references(notNull(integer), "jobs"),
     workerId |-> unique(references(notNull(integer), "users")),
     status |-> default(notNull(text), Str("pending")),
     note |-> text,
     createdAt |-> defaultNow(notNull(timestamp))]

applications ==
    [id |-> primaryKey(serial),
     jobId |-> references(notNull(integer), "jobs"),
     workerId |-> references(notNull(integer), "users"),
     status |-> default(notNull(text), Str("pending")),
     note |-> text,
     createdAt |-> defaultNow(notNull(timestamp))]

TableNames == {"users", "jobs", "applications"}

Table(name) ==
    CASE name = "users" -> users
      [] name = "jobs" -> jobs
      [] name = "applications" -> applications

---------------------------------------------------------------------------
(* The relations: one(target, {fields: [field], references: [target.id]}) *)

one(target, field) == [target |-> target, field |-> field, ref |-> "id"]

jobsRelations == [employer |-> one("users", "employerId")]

applicationsRelations ==
    [job |-> one("jobs", "jobId"), worker |-> one("users", "workerId")]

\* The rows a relation yields for `row` in the store `d`.
Related(d, rel, row) == {r \in d[rel.target] : r[rel.ref] = row[rel.field]}

---------------------------------------------------------------------------
(* zod types *)

ZodType(kind) ==
    [kind |-> kind, coerce |-> FALSE, nullable |-> FALSE, optional |-> FALSE,
     hasDefault |-> FALSE, dflt |-> Undefined]

zString == ZodType("string")
zNumber == ZodType("number")
zBoolean == ZodType("boolean")
zDate == ZodType("date")
zArrayOfString == ZodType("array")
zCoerceDate == [ZodType("date") EXCEPT !.coerce = TRUE]
zOptional(t) == [t EXCEPT !.optional = TRUE]
zNullable(t) == [t EXCEPT !.nullable = TRUE]
zDefault(t, v) == [t EXCEPT !.hasDefault = TRUE, !.dflt = v]

\* drizzle-zod: the insert schema of a table. A column's type gives the zod
\* type; a column that may be null is nullable and optional, and a column with
\* a default (a serial included) is optional.
ColumnToZod(c) ==
    LET base == IF c.isArray THEN zArrayOfString ELSE ZodType(c.dataType)
        n == IF c.notNull THEN base ELSE zOptional(zNullable(base))
    IN  IF c.dflt.kind # "none" THEN zOptional(n) ELSE n

createInsertSchema(table) == [c \in DOMAIN table |-> ColumnToZod(table[c])]

pick(schema, keys) == [k \in keys \cap DOMAIN schema |-> schema[k]]

extend(schema, shape) == Merge(schema, shape)

---------------------------------------------------------------------------
(* The insert schemas *)

\* insertUserSchema, had verified been picked with the other fields.
insertUserSchema_picksVerified ==
    extend(pick(createInsertSchema(users),
                {"username", "password", "role", "fullName", "email", "phone",
                 "companyName", "companyDescription", "companyLogo", "bio",
                 "skills", "hourlyRate", "yearsExperience", "verified"}),
           [skills |-> zDefault(zOptional(zArrayOfString), Arr(<<>>))])

insertUserSchema ==
    extend(pick(createInsertSchema(users),
                {"username", "password", "role", "fullName", "email", "phone",
                 "companyName", "companyDescription", "companyLogo", "bio",
                 "skills", "hourlyRate", "yearsExperience"}),
           [skills |-> zDefault(zOptional(zArrayOfString), Arr(<<>>))])

\* insertJobSchema, had employerId been picked with the other fields.
insertJobSchema_picksEmployerId ==
    extend(pick(createInsertSchema(jobs),
                {"title", "description", "location", "requirements",
                 "startDate", "endDate", "shiftStartTime", "shiftEndTime",
                 "shiftHours", "rate", "employerId"}),
           [requirements |-> zDefault(zArrayOfString, Arr(<<>>)),
            startDate |-> zCoerceDate, endDate |-> zCoerceDate])

\* insertJobSchema, had requirements been left as the table gives it.
insertJobSchema_requirementsNotDefaulted ==
    extend(pick(createInsertSchema(jobs),
                {"title", "description", "location", "requirements",
                 "startDate", "endDate", "shiftStartTime", "shiftEndTime",
                 "shiftHours", "rate"}),
           [startDate |-> zCoerceDate, endDate |-> zCoerceDate])

insertJobSchema ==
    extend(pick(createInsertSchema(jobs),
                {"title", "description", "location", "requirements",
                 "startDate", "endDate", "shiftStartTime", "shiftEndTime",
                 "shiftHours", "rate"}),
           [requirements |-> zDefault(zArrayOfString, Arr(<<>>)),
            startDate |-> zCoerceDate, endDate |-> zCoerceDate])

insertApplicationSchema ==
    extend(pick(createInsertSchema(applications),
                {"jobId", "workerId", "note"}),
           [note |-> zOptional(zString)])

InsertSchema(name) ==
    CASE name = "users" -> insertUserSchema
      [] name = "jobs" -> insertJobSchema
      [] name = "applications" -> insertApplicationSchema

---------------------------------------------------------------------------
(* zod's parse *)

\* Date.parse on the date strings the model uses; any other string is not a
\* date.
DateParse(s) ==
    CASE s = "2024-01-01" -> Date(19723, 0)
      [] s = "2024-01-02" -> Date(19724, 0)
      [] s = "2024-01-03" -> Date(19725, 0)
      [] OTHER -> InvalidDate

\* String(v), as new Date(v) applies it to an object (an array joins its
\* elements' strings with commas).
RECURSIVE JsString(_)
JsString(v) ==
    CASE v.type = "string" -> v.val
      [] v.type = "boolean" -> IF v.val THEN "true" ELSE "false"
      [] v.type = "array" ->
            IF Len(v.val) = 1 THEN JsString(v.val[1]) ELSE "(joined)"
      [] OTHER -> "(other)"

\* new Date(v)
NewDate(v) ==
    CASE v.type = "date" -> v
      [] v.type = "undefined" -> InvalidDate
      [] v.type = "null" -> Date(0, 0)
      [] v.type = "number" -> Date(v.val \div 86400000, v.val % 86400000)
      [] v.type = "boolean" -> Date(0, IF v.val THEN 1 ELSE 0)
      [] v.type = "string" -> DateParse(v.val)
      [] v.type = "array" -> DateParse(JsString(v))

\* An issue's path is the key and, inside an array, the element's index
\* (0: the key itself).
Issue(path, code, received) ==
    [key |-> path[1], index |-> IF Len(path) > 1 THEN path[2] ELSE 0,
     code |-> code, received |-> received]

Ok(v) == [value |-> v, issues |-> {}]
Invalid(issues) == [value |-> Undefined, issues |-> issues]

\* The innermost type's parse of a value that is there.
ParseInner(t, key, v) ==
    CASE t.kind = "date" ->
            LET d == IF t.coerce THEN NewDate(v) ELSE v
            IN  IF d.type # "date"
                THEN Invalid({Issue(<<key>>, "invalid_type", d.type)})
                ELSE IF d = InvalidDate
                THEN Invalid({Issue(<<key>>, "invalid_date", "date")})
                ELSE Ok(d)
      [] t.kind = "array" ->
            IF v.type # "array"
            THEN Invalid({Issue(<<key>>, "invalid_type", v.type)})
            ELSE LET bad == {i \in 1..Len(v.val) : v.val[i].type # "string"}
                 IN  IF bad = {} THEN Ok(v)
                     ELSE Invalid({Issue(<<key, i>>, "invalid_type",
                                         v.val[i].type) : i \in bad})
      [] OTHER ->
            IF v.type = t.kind THEN Ok(v)
            ELSE Invalid({Issue(<<key>>, "invalid_type", v.type)})

\* default, then optional, then nullable, then the type itself.
ParseType(t, key, v) ==
    IF v = Undefined /\ t.hasDefault THEN Ok(t.dflt)
    ELSE IF v = Undefined /\ t.optional THEN Ok(Undefined)
    ELSE IF v = Null /\ t.nullable THEN Ok(Null)
    ELSE ParseInner(t, key, v)

\* safeParse, had it stopped at the first key that fails.
safeParse_failFast(schema, input) ==
    LET out == [k \in DOMAIN schema |-> ParseType(schema[k], k, Get(input, k))]
        failed == {k \in DOMAIN schema : out[k].issues # {}}
        keys == {k \in DOMAIN schema : out[k].value # Undefined}
    IN  IF failed = {}
        THEN [success |-> TRUE, data |-> [k \in keys |-> out[k].value],
              issues |-> {}]
        ELSE [success |-> FALSE, data |-> EmptyObject,
              issues |-> out[CHOOSE k \in failed : TRUE].issues]

\* schema.safeParse(input): every key of the shape is parsed and every issue
\* is collected; a key of the input that the shape does not hold is stripped.
safeParse(schema, input) ==
    LET out == [k \in DOMAIN schema |-> ParseType(schema[k], k, Get(input, k))]
        issues == UNION {out[k].issues : k \in DOMAIN schema}
        keys == {k \in DOMAIN schema : out[k].value # Undefined}
    IN  IF issues = {}
        THEN [success |-> TRUE, data |-> [k \in keys |-> out[k].value],
              issues |-> {}]
        ELSE [success |-> FALSE, data |-> EmptyObject, issues |-> issues]

---------------------------------------------------------------------------
(* The store: what the declared columns make an INSERT and a SELECT do. *)

\* The driver's encoding of a value (a Date becomes a timestamp) and its
\* decoding when the row is read back.
ToDriver(v) ==
    IF v.type = "date" THEN Timestamp(v.val[1], v.val[2]) ELSE v

\* FromDriver, had a timestamp been handed back as the driver holds it.
FromDriver_raw(v) == v

FromDriver(v) ==
    IF v.type = "timestamp" THEN Date(v.val[1], v.val[2]) ELSE v

\* The value of a column the INSERT gives no value for: the sequence's next
\* value, the declared default, now(), or NULL. The clock counts the
\* milliseconds of day 19800.
DefaultValue(c, nextval, t) ==
    CASE c.dflt.kind = "serial" -> Num(nextval)
      [] c.dflt.kind = "value" -> c.dflt.val
      [] c.dflt.kind = "now" -> Timestamp(19800, t)
      [] OTHER -> Null

\* INSERT INTO tname VALUES (values) against the rows d, with nextval the
\* sequence's next value and t the clock. The row is built first (defaults
\* included), then NOT NULL is checked, then the unique indexes (the primary
\* key's among them), then the foreign keys.
Insert(tname, values, d, nextval, t) ==
    LET table == Table(tname)
        row == [c \in DOMAIN table |->
                  IF c \in DOMAIN values THEN ToDriver(values[c])
                  ELSE DefaultValue(table[c], nextval, t)]
        nulls == {c \in DOMAIN table : table[c].notNull /\ row[c] = Null}
        dups == {c \in DOMAIN table :
                   /\ table[c].isUnique \/ table[c].primary
                   /\ row[c] # Null
                   /\ \E r \in d[tname] : r[c] = row[c]}
        dangling == {c \in DOMAIN table :
                       /\ table[c].references # ""
                       /\ row[c] # Null
                       /\ ~ \E r \in d[table[c].references] : r.id = row[c]}
    IN  IF nulls # {}
        THEN [outcome |-> "not_null_violation", columns |-> nulls, row |-> row]
        ELSE IF dups # {}
        THEN [outcome |-> "unique_violation", columns |-> dups, row |-> row]
        ELSE IF dangling # {}
        THEN [outcome |-> "foreign_key_violation", columns |-> dangling,
              row |-> row]
        ELSE [outcome |-> "ok", columns |-> {}, row |-> row]

\* Whether the INSERT draws the table's sequence (it does before any
\* constraint is checked, so a refused INSERT consumes the value too).
DrawsSequence(tname, values) ==
    \E c \in DOMAIN Table(tname) :
        Table(tname)[c].dflt.kind = "serial" /\ c \notin DOMAIN values

\* SELECT of a stored row.
Select(row) == [c \in DOMAIN row |-> FromDriver(row[c])]

---------------------------------------------------------------------------
(* Bounds, and the inputs the clients send *)

MaxEdits == 2     \* fields in which a validated input differs from a valid one
MaxInserts == 4   \* INSERTs sent to the store
MaxTime == 1      \* ticks of the clock

Edit(key, val) == [key |-> key, val |-> val]

\* The input with one key set to a value, or removed (val = Undefined).
ApplyEdit(input, e) ==
    [k \in IF e.val = Undefined THEN DOMAIN input \ {e.key}
           ELSE DOMAIN input \cup {e.key} |->
        IF k = e.key THEN e.val ELSE input[k]]

\* The inputs at most n edits away from base.
RECURSIVE EditedInputs(_, _, _)
EditedInputs(base, edits, n) ==
    IF n = 0 THEN {base}
    ELSE LET prev == EditedInputs(base, edits, n - 1)
         IN  prev \cup {ApplyEdit(i, e) : i \in prev, e \in edits}

\* A valid input of each kind.
ValidUser ==
    [username |-> Str("alice"), password |-> Str("x"), role |-> Str("worker"),
     fullName |-> Str("Alice A"), email |-> Str("a@x.com")]

ValidJob ==
    [title |-> Str("Warehouse shift"), description |-> Str("..."),
     location |-> Str("Austin"), startDate |-> Str("2024-01-01"),
     endDate |-> Str("2024-01-02"), shiftStartTime |-> Str("08:00"),
     shiftEndTime |-> Str("16:00"), shiftHours |-> Num(8), rate |-> Num(20)]

ValidApplication == [jobId |-> Num(1), workerId |-> Num(1)]

ValidInput(tname) ==
    CASE tname = "users" -> ValidUser
      [] tname = "jobs" -> ValidJob
      [] tname = "applications" -> ValidApplication

\* What a client may put under a key: nothing, or a value of any type.
EditValues ==
    {Undefined, Null, Str("soon"), Str("2024-01-03"), Num(5), Bool(TRUE),
     Arr(<<Str("welding")>>), Arr(<<Bool(TRUE)>>)}

\* Every column of the table is a key a client may send, the server-assigned
\* ones included.
AllEdits(tname) ==
    {Edit(k, v) : k \in DOMAIN Table(tname), v \in EditValues}

UserInputs == EditedInputs(ValidUser, AllEdits("users"), MaxEdits)
JobInputs == EditedInputs(ValidJob, AllEdits("jobs"), MaxEdits)
ApplicationInputs ==
    EditedInputs(ValidApplication, AllEdits("applications"), MaxEdits)

Inputs(tname) ==
    CASE tname = "users" -> UserInputs
      [] tname = "jobs" -> JobInputs
      [] tname = "applications" -> ApplicationInputs

\* The inputs that are sent on to the store: the valid one, and the ones one
\* of these edits away from it.
StoreEdits(tname) ==
    CASE tname = "users" ->
            {Edit("username", Str("bob")), Edit("role", Str("admin")),
             Edit("verified", Bool(TRUE)), Edit("email", Undefined)}
      [] tname = "jobs" ->
            {Edit("requirements", Arr(<<Str("lifting")>>)),
             Edit("status", Str("closed")), Edit("employerId", Num(2))}
      [] tname = "applications" ->
            {Edit("jobId", Num(2)), Edit("workerId", Num(2)),
             Edit("status", Str("accepted")),
             Edit("createdAt", Str("2024-01-01")), Edit("jobId", Undefined)}

StoreUserInputs == EditedInputs(ValidUser, StoreEdits("users"), 1)
StoreJobInputs == EditedInputs(ValidJob, StoreEdits("jobs"), 1)
StoreApplicationInputs ==
    EditedInputs(ValidApplication, StoreEdits("applications"), 1)

StoreInputs(tname) ==
    CASE tname = "users" -> StoreUserInputs
      [] tname = "jobs" -> StoreJobInputs
      [] tname = "applications" -> StoreApplicationInputs

\* What the caller adds to the validated record before the INSERT: nothing,
\* or, for a job, the posting employer's id (a field the insert schema does
\* not hold).
CallerFields(tname) ==
    IF tname = "jobs"
    THEN {EmptyObject} \cup {[employerId |-> Num(u)] : u \in 1..2}
    ELSE {EmptyObject}

---------------------------------------------------------------------------
(* The state machine *)

NoResult == [success |-> FALSE, data |-> EmptyObject, issues |-> {}]

Operation(op, kind, input, parsed, values, outcome, columns, row, at) ==
    [op |-> op, kind |-> kind, input |-> input, parsed |-> parsed,
     values |-> values, outcome |-> outcome, columns |-> columns,
     row |-> row, at |-> at]

Init ==
    /\ db = [t \in TableNames |-> {}]
    /\ seq = [t \in TableNames |-> 0]
    /\ now = 0
    /\ last = Operation("none", "users", EmptyObject, NoResult, EmptyObject,
                        "none", {}, EmptyObject, 0)

\* A creation: the input is validated by the kind's insert schema; a rejected
\* input goes no further; an accepted one is inserted (with what the caller
\* adds), and the store answers with the row or with the constraint it
\* refuses the row for.
Create(tname, input, extra) ==
    \E parsed \in {safeParse(InsertSchema(tname), input)} :
    \E values \in {Merge(parsed.data, extra)} :
    \E res \in {Insert(tname, values, db, seq[tname] + 1, now)} :
        IF ~parsed.success
        THEN /\ last' = Operation("create", tname, input, parsed, EmptyObject,
                                  "validation_error", {}, EmptyObject, now)
             /\ UNCHANGED <<db, seq, now>>
        ELSE /\ seq["users"] + seq["jobs"] + seq["applications"] < MaxInserts
             /\ seq' = IF DrawsSequence(tname, values)
                       THEN [seq EXCEPT ![tname] = @ + 1] ELSE seq
             /\ db' = IF res.outcome = "ok"
                      THEN [db EXCEPT ![tname] = @ \cup {res.row}] ELSE db
             /\ last' = Operation("create", tname, input, parsed, values,
                                  res.outcome, res.columns, res.row, now)
             /\ UNCHANGED now

CreateUser == \E input \in StoreInputs("users") : Create("users", input, EmptyObject)

CreateJob ==
    \E input \in StoreInputs("jobs"), extra \in CallerFields("jobs") :
        Create("jobs", input, extra)

CreateApplication ==
    \E input \in StoreInputs("applications") :
        Create("applications", input, EmptyObject)

\* The clock moves on.
Tick ==
    /\ now < MaxTime
    /\ now' = now + 1
    /\ UNCHANGED <<db, seq, last>>

Next == CreateUser \/ CreateJob \/ CreateApplication \/ Tick

Spec == Init /\ [][Next]_vars

(* The validator alone: an input of a kind is drawn, then parsed. *)

InitValidate ==
    /\ db = [t \in TableNames |-> {}]
    /\ seq = [t \in TableNames |-> 0]
    /\ now = 0
    /\ \E tname \in TableNames : \E input \in Inputs(tname) :
          last = Operation("input", tname, input, NoResult, EmptyObject,
                           "none", {}, EmptyObject, 0)

Validate ==
    /\ last.op = "input"
    /\ last' = [last EXCEPT
                  !.op = "validate",
                  !.parsed = safeParse(InsertSchema(last.kind), last.input),
                  !.outcome = IF safeParse(InsertSchema(last.kind),
                                           last.input).success
                              THEN "ok" ELSE "validation_error"]
    /\ UNCHANGED <<db, seq, now>>

NextValidate == Validate

SpecValidate == InitValidate /\ [][NextValidate]_vars

---------------------------------------------------------------------------
(* Vocabulary of the properties *)

\* The fields the server assigns.
ServerAssigned == {"id", "verified", "status", "createdAt"}

Without(obj, keys) == [k \in DOMAIN obj \ keys |-> obj[k]]

Created(tname) == last.op = "create" /\ last.kind = tname

Validated(tname) == last.op = "validate" /\ last.kind = tname

\* The keys a validation error names.
ErrorFields(parsed) == {i.key : i \in parsed.issues}

\* <<day, ms>> of a stored timestamp, compared.
NotAfter(a, b) ==
    \/ a.val[1] < b.val[1]
    \/ a.val[1] = b.val[1] /\ a.val[2] <= b.val[2]

---------------------------------------------------------------------------
(* Properties *)

\* What the server assigns to a column of a row it has just stored.
ServerValue(tname, c) ==
    CASE c = "id" -> Num(seq[tname])
      [] c = "verified" -> Bool(FALSE)
      [] c = "status" -> IF tname = "jobs" THEN Str("open") ELSE Str("pending")
      [] c = "createdAt" -> Timestamp(19800, last.at)

\* C1: a client's value for a server-assigned field (id, verified, status,
\* createdAt) has no effect on a creation. Every input that differs from the
\* one created only in those fields gets the same validator result, and the
\* stored row holds the server's values in them (the sequence's id,
\* verified = false, status = "open" for a job and "pending" for an
\* application, createdAt = the time of the creation) and the validated
\* values, or NULL, everywhere else.
C1_ServerAssignedIgnored ==
    last.op = "create" =>
        /\ \A other \in StoreInputs(last.kind) :
              Without(other, ServerAssigned) = Without(last.input, ServerAssigned)
              => safeParse(InsertSchema(last.kind), other) = last.parsed
        /\ last.parsed
             = safeParse(InsertSchema(last.kind),
                         Without(last.input, ServerAssigned))
        /\ last.outcome = "ok" =>
              \A c \in DOMAIN last.row :
                  last.row[c] =
                      IF c \in ServerAssigned THEN ServerValue(last.kind, c)
                      ELSE IF c \in DOMAIN last.values
                      THEN ToDriver(last.values[c])
                      ELSE Null

\* C1's case: a stored row whose input carried a server-assigned field with
\* a value other than the one the server assigned.
C1_Witness ==
    /\ last.op = "create"
    /\ last.outcome = "ok"
    /\ \E c \in ServerAssigned \cap DOMAIN last.input \cap DOMAIN last.row :
          ToDriver(last.input[c]) # last.row[c]

\* C2 as claimed: a Job input without employerId is rejected, and every
\* normalized Job record carries the employerId the client supplied.
C2_EmployerIdRequired ==
    Created("jobs") =>
        /\ "employerId" \notin DOMAIN last.input => ~last.parsed.success
        /\ last.parsed.success =>
              /\ "employerId" \in DOMAIN last.parsed.data
              /\ last.parsed.data.employerId = Get(last.input, "employerId")

\* C2, amended: the Job insert schema does not hold employerId. Whether a
\* Job input is accepted does not depend on employerId, and no normalized
\* Job record carries it (a supplied one is stripped). The store refuses the
\* normalized record as it is (employerId is NOT NULL) and stores it only
\* with the employerId the caller adds, which is the one the row then holds.
C2_EmployerIdNotAccepted ==
    Created("jobs") =>
        /\ last.parsed
             = safeParse(insertJobSchema, Without(last.input, {"employerId"}))
        /\ last.parsed.success =>
              /\ "employerId" \notin DOMAIN last.parsed.data
              /\ "employerId" \notin DOMAIN last.values =>
                    /\ last.outcome = "not_null_violation"
                    /\ "employerId" \in last.columns
              /\ last.outcome = "ok" =>
                    /\ "employerId" \in DOMAIN last.values
                    /\ last.row.employerId = last.values.employerId

\* C2's case: a job stored for the employer the caller named, from an input
\* in which the client named another.
C2_Witness ==
    /\ Created("jobs")
    /\ last.outcome = "ok"
    /\ "employerId" \in DOMAIN last.input
    /\ last.row.employerId # last.input.employerId

\* Why a value offends a field's type: the field is required and missing,
\* the value is of the wrong type, or it cannot be coerced to a date.
MissingRequired(t, v) ==
    v = Undefined /\ ~t.optional /\ ~t.hasDefault

WrongType(t, v) ==
    /\ v # Undefined
    /\ ~t.coerce
    /\ ~(v = Null /\ t.nullable)
    /\ \/ v.type # t.kind
       \/ t.kind = "array" /\ \E i \in 1..Len(v.val) : v.val[i].type # "string"

FailedCoercion(t, v) ==
    t.coerce /\ v # Undefined /\ NewDate(v) = InvalidDate

\* The offending fields of an input.
Offending(schema, input) ==
    {k \in DOMAIN schema :
        \/ MissingRequired(schema[k], Get(input, k))
        \/ WrongType(schema[k], Get(input, k))
        \/ FailedCoercion(schema[k], Get(input, k))}

\* C3: an input is rejected exactly when it has an offending field, and the
\* validation error names exactly the offending fields, each at least once
\* and no other field; an Application input whose only defect is a missing
\* jobId gets an error of one entry, which says that jobId is missing.
C3_ErrorListsOffendingFields ==
    last.op = "validate" =>
        LET schema == InsertSchema(last.kind)
            offending == Offending(schema, last.input)
        IN  /\ last.parsed.success <=> offending = {}
            /\ ErrorFields(last.parsed) = offending
            /\ /\ last.kind = "applications"
               /\ offending = {"jobId"}
               /\ "jobId" \notin DOMAIN last.input
               => last.parsed.issues
                    = {Issue(<<"jobId">>, "invalid_type", "undefined")}

\* C3's case: a rejected input with several offending fields, all of them
\* named.
C3_Witness ==
    /\ last.op = "validate"
    /\ ~last.parsed.success
    /\ Cardinality(Offending(InsertSchema(last.kind), last.input)) > 1
    /\ Cardinality(ErrorFields(last.parsed)) > 1

Roles == {Str("worker"), Str("employer")}

\* C4 as claimed: a User input whose role is neither worker nor employer is
\* rejected, and no stored User has such a role.
C4_RoleIsWorkerOrEmployer ==
    /\ \A u \in db["users"] : u.role \in Roles
    /\ Created("users") /\ Get(last.input, "role") \notin Roles
       => ~last.parsed.success

\* C7: an accepted User input without skills is normalized to skills = [],
\* and an accepted Job input without requirements to requirements = []; the
\* field is never left unset.
C7_AbsentSequenceDefaultsToEmpty ==
    /\ Validated("users") /\ last.parsed.success
       => /\ "skills" \in DOMAIN last.parsed.data
          /\ "skills" \notin DOMAIN last.input
             => last.parsed.data.skills = Arr(<<>>)
    /\ Validated("jobs") /\ last.parsed.success
       => /\ "requirements" \in DOMAIN last.parsed.data
          /\ "requirements" \notin DOMAIN last.input
             => last.parsed.data.requirements = Arr(<<>>)

\* C7's case: an accepted Job input without requirements.
C7_Witness ==
    /\ Validated("jobs")
    /\ last.parsed.success
    /\ "requirements" \notin DOMAIN last.input
    /\ last.parsed.data.requirements = Arr(<<>>)

\* A step that sends an INSERT to table tname (it draws the sequence).
Inserts(tname) == seq'[tname] # seq[tname]

UsernamesUnique ==
    \A u1, u2 \in db["users"] : u1.username = u2.username => u1 = u2

\* An INSERT into users of a username a stored User holds is refused with a
\* uniqueness error on username and leaves the stored Users as they were; an
\* INSERT that is accepted stores the username as it was supplied.
CollisionRefused ==
    Inserts("users") =>
        /\ (\E u \in db["users"] : u.username = last'.values.username)
           => /\ last'.outcome = "unique_violation"
              /\ last'.columns = {"username"}
              /\ db' = db
        /\ last'.outcome = "ok"
           => /\ last'.row.username = last'.input.username
              /\ db'["users"] = db["users"] \cup {last'.row}

\* C5: no two stored Users share a username, whatever the creations and
\* their order; a creation whose username is taken fails with a uniqueness
\* error, which is what the caller is answered, and changes no stored User;
\* a username is stored as supplied.
C5_UsernameUnique == [](UsernamesUnique) /\ [][CollisionRefused]_vars

\* C5's case: a creation refused for its username, which a stored User holds.
C5_Witness ==
    /\ Created("users")
    /\ last.outcome = "unique_violation"
    /\ \E u \in db["users"] : u.username = last.input.username

\* Every relation of every stored row yields exactly one row.
ReferencesResolve ==
    /\ \A j \in db["jobs"] :
          Cardinality(Related(db, jobsRelations.employer, j)) = 1
    /\ \A a \in db["applications"] :
          /\ Cardinality(Related(db, applicationsRelations.job, a)) = 1
          /\ Cardinality(Related(db, applicationsRelations.worker, a)) = 1

\* The foreign keys of table tname that do not resolve in the values sent.
Unresolved(tname, values, d) ==
    {c \in DOMAIN values \cap DOMAIN Table(tname) :
        /\ Table(tname)[c].references # ""
        /\ ~ \E r \in d[Table(tname)[c].references] : r.id = values[c]}

\* Whether the values hold every column that may not be null and has no
\* default.
HoldsRequired(tname, values) ==
    \A c \in DOMAIN Table(tname) :
        Table(tname)[c].notNull /\ Table(tname)[c].dflt.kind = "none"
        => c \in DOMAIN values /\ values[c] # Null

\* An INSERT that holds every required column and a foreign key that does not
\* resolve is refused with a referential-integrity error and stores nothing.
DanglingRefused ==
    \A tname \in {"jobs", "applications"} :
        /\ Inserts(tname)
        /\ HoldsRequired(tname, last'.values)
        /\ Unresolved(tname, last'.values, db) # {}
        => /\ last'.outcome = "foreign_key_violation"
           /\ last'.columns = Unresolved(tname, last'.values, db)
           /\ db' = db

\* C6: in every state every Job's employerId names a stored User and every
\* Application's jobId and workerId name a stored Job and a stored User, so
\* each relation resolves to exactly one row; an INSERT whose foreign key
\* does not resolve is refused with a referential-integrity error and stores
\* nothing.
C6_ReferentialIntegrity == [](ReferencesResolve) /\ [][DanglingRefused]_vars

\* C6's case: an Application is stored, its job and worker resolving, and an
\* INSERT with a dangling foreign key has just been refused.
C6_Witness ==
    /\ db["applications"] # {}
    /\ last.op = "create"
    /\ last.outcome = "foreign_key_violation"

\* C8: every stored Application has status "pending"; the one just created
\* has createdAt equal to the time of its creation; and the createdAt of the
\* stored Applications do not decrease in the order of their creation (the
\* order of their ids).
C8_PendingAndCreatedAt ==
    /\ \A a \in db["applications"] : a.status = Str("pending")
    /\ Created("applications") /\ last.outcome = "ok"
       => /\ last.row \in db["applications"]
          /\ Select(last.row).createdAt = Date(19800, last.at)
    /\ \A a1, a2 \in db["applications"] :
          a1.id.val < a2.id.val => NotAfter(a1.createdAt, a2.createdAt)

\* C8's case: two Applications created at different times.
C8_Witness ==
    \E a1, a2 \in db["applications"] :
        /\ a1.id.val < a2.id.val
        /\ a1.createdAt # a2.createdAt
        /\ a2 = last.row

SamePair(values, d) ==
    {a \in d["applications"] :
        a.jobId = values.jobId /\ a.workerId = values.workerId}

\* C10: the (jobId, workerId) pair of an Application need not be unique. An
\* Application whose job and worker exist is stored, with an id of its own,
\* also when a stored Application already holds the same job and worker.
C10_PairNotUnique ==
    /\ Created("applications")
    /\ last.parsed.success
    /\ Unresolved("applications", last.values, db) = {}
    => /\ last.outcome = "ok"
       /\ last.row \in db["applications"]
       /\ \A a \in db["applications"] : a.id = last.row.id => a = last.row

\* C10's case: two stored Applications, of distinct ids, of the same job and
\* worker.
C10_Witness ==
    /\ Created("applications")
    /\ last.outcome = "ok"
    /\ \E a \in SamePair(last.values, db) : a.id # last.row.id

=============================================================================
